---- MODULE Spec2Model ----
(***************************************************************************)
(* OFS: the reflective serializer (OFS-lib/OFS_Serialization.h) and the    *)
(* editing shell of the funscript timeline (src/OpenFunscripter.cpp).      *)
(*                                                                         *)
(* SerSpec is the serializer: an in-memory object of a reflected type is   *)
(* serialized to a JSON document, documents are read from files, and       *)
(* documents are deserialized back into an object.                         *)
(* Spec is the editor: the shell's commands acting on the loaded script,   *)
(* its selection, the clipboard and the undo/redo stacks.                  *)
(***************************************************************************)
EXTENDS Integers, Sequences, FiniteSets, TLC

(***************************************************************************)
(* Bounds of the model.                                                    *)
(***************************************************************************)
\* longest array of a document read from a file, longest sequence of a drawn value
MaxLen == 2
\* a vector never grows past this by repeated deserialization into it
MaxVec == 4

(***************************************************************************)
(* nlohmann::json values: the document tree.                               *)
(***************************************************************************)
JNull == [k |-> "null"]
JBool(b) == [k |-> "bool", v |-> b]
JNum(n) == [k |-> "num", v |-> n]
JStr(s) == [k |-> "str", v |-> s]
JArr(s) == [k |-> "arr", v |-> s]
\* f: a function from the keys (strings) of the object to documents
JObj(f) == [k |-> "obj", v |-> f]

NoFields == [x \in {} |-> JNull]

\* nlohmann::json keeps an object's keys in a std::map: sorted by key
KeyOrder == <<"actions", "at", "extra", "fixed", "mode", "name", "pos">>

\* for (auto& jsonItem : json): the elements of an array, the values of an
\* object in key order, nothing for null, the value itself for a scalar
JsonItems(doc) ==
    CASE doc.k = "arr" -> doc.v
      [] doc.k = "obj" ->
            LET keys == SelectSeq(KeyOrder, LAMBDA key : key \in DOMAIN doc.v)
            IN  [i \in 1..Len(keys) |-> doc.v[keys[i]]]
      [] doc.k = "null" -> <<>>
      [] OTHER -> <<doc>>

\* json.contains(key): false for everything that is not an object
Contains(doc, key) == doc.k = "obj" /\ key \in DOMAIN doc.v

(***************************************************************************)
(* The static shape of a type, as the serializer's if-constexpr dispatch   *)
(* sees it: json-compatible primitive, reflected object, container.        *)
(***************************************************************************)
TPrim(p) == [k |-> "prim", p |-> p]
\* a member with the serializeEnum attribute: an enum of underlying type p
TEnum(p) == [k |-> "enum", p |-> p]
TObj(ms) == [k |-> "obj", members |-> ms]
TVec(t) == [k |-> "vec", item |-> t]
TArr(t, n) == [k |-> "arr", item |-> t, size |-> n]
\* a declared member: its display name and its type
Member(n, t) == [name |-> n, type |-> t]

\* FunscriptAction {at, pos} and the Funscript's persisted members
TAction == TObj(<<Member("at", TPrim("int32")), Member("pos", TPrim("int32"))>>)
TTimeline == TObj(<<Member("actions", TVec(TAction))>>)
\* a reflected type with an enum member, a string and a std::array<int32_t, 2>
ArraySize == 2
TSample == TObj(<<Member("mode", TEnum("uint8")),
                  Member("name", TPrim("string")),
                  Member("fixed", TArr(TPrim("int32"), ArraySize))>>)

\* a read that knows the enumerators 0..2 and falls back to the first one
FromUnderlyingChecked(n) == [u |-> IF n > 2 THEN 0 ELSE n]

\* an enum value is kept by its underlying value: static_cast both ways
ToUnderlying(e) == e.u
FromUnderlying(n) == [u |-> n]

\* the type of the member a display name declares
MemberType(t, n) ==
    t.members[CHOOSE i \in 1..Len(t.members) : t.members[i].name = n].type

MemberNames(t) == {t.members[i].name : i \in 1..Len(t.members)}

RECURSIVE DefaultOf(_)
\* a default-constructed (value-initialized) object of the type
DefaultOf(t) ==
    CASE t.k = "prim" ->
            (CASE t.p = "string" -> ""
               [] t.p = "bool" -> FALSE
               [] OTHER -> 0)
      [] t.k = "enum" -> FromUnderlying(0)
      [] t.k = "vec" -> <<>>
      [] t.k = "arr" -> [i \in 1..t.size |-> DefaultOf(t.item)]
      [] t.k = "obj" ->
            [n \in MemberNames(t) |-> DefaultOf(MemberType(t, n))]

(***************************************************************************)
(* json.get<Type>() and json = obj for the json-compatible types.          *)
(***************************************************************************)
\* static_cast of a JSON integer to the arithmetic type
ArithCast(p, n) ==
    CASE p = "uint8" -> n % 256
      [] p = "uint16" -> n % 65536
      [] OTHER -> n

\* json.get<Type>(): the value, or type_error.302 thrown when the document
\* holds another JSON type (a number type other than json's own also reads
\* a boolean as 0 or 1)
JsonGet(p, obj, doc) ==
    CASE p = "string" ->
            IF doc.k = "str" THEN [thrown |-> FALSE, val |-> doc.v]
            ELSE [thrown |-> TRUE, val |-> obj]
      [] p = "bool" ->
            IF doc.k = "bool" THEN [thrown |-> FALSE, val |-> doc.v]
            ELSE [thrown |-> TRUE, val |-> obj]
      [] OTHER ->
            IF doc.k = "num" THEN [thrown |-> FALSE, val |-> ArithCast(p, doc.v)]
            ELSE IF doc.k = "bool"
                 THEN [thrown |-> FALSE, val |-> IF doc.v THEN 1 ELSE 0]
                 ELSE [thrown |-> TRUE, val |-> obj]

\* json = obj
ToJson(p, obj) ==
    CASE p = "string" -> JStr(obj)
      [] p = "bool" -> JBool(obj)
      [] OTHER -> JNum(obj)

(***************************************************************************)
(* Serializer::Deserialize.  A result is the returned bool, the object as  *)
(* the call left it, whether an exception left a noexcept function (the    *)
(* process is terminated), and whether a std::array was indexed past its   *)
(* end (undefined behaviour).  Nothing runs after either of the last two.  *)
(***************************************************************************)
Res(r, o, t, u) == [ret |-> r, val |-> o, term |-> t, oob |-> u]

RECURSIVE Deserialize(_, _, _)
RECURSIVE deserializeMembers(_, _, _, _, _)
RECURSIVE deserializeVectorItems(_, _, _, _)
RECURSIVE deserializeArrayItems(_, _, _, _, _)

\* the for_each over the declared members, from member i on
deserializeMembers(ms, i, objectRef, objectJson, successful) ==
    IF i > Len(ms) THEN Res(successful, objectRef, FALSE, FALSE)
    ELSE
      LET m == ms[i] IN
      IF Contains(objectJson, m.name)
      THEN
        LET currentJson == objectJson.v[m.name]
            r == IF m.type.k = "enum"
                 THEN LET e == Deserialize(TPrim(m.type.p),
                                           ToUnderlying(objectRef[m.name]),
                                           currentJson)
                      IN  [e EXCEPT !.val = FromUnderlying(e.val)]
                 ELSE Deserialize(m.type, objectRef[m.name], currentJson)
            o2 == [objectRef EXCEPT ![m.name] = r.val]
        IN  IF r.term \/ r.oob THEN Res(FALSE, o2, r.term, r.oob)
            ELSE deserializeMembers(ms, i + 1, o2, objectJson,
                                    successful /\ r.ret)
      \* the key is absent: a warning is logged, the member is not touched
      ELSE deserializeMembers(ms, i + 1, objectRef, objectJson, successful)

\* a reading that counts an absent key as a failure
deserializeObjectStrict(t, objectRef, objectJson) ==
    LET r == deserializeMembers(t.members, 1, objectRef, objectJson, TRUE)
    IN  [r EXCEPT !.ret = /\ r.ret
                          /\ \A i \in 1..Len(t.members) :
                                Contains(objectJson, t.members[i].name)]

\* a reading that counts a key of no declared member as a failure
deserializeObjectClosed(t, objectRef, objectJson) ==
    LET r == deserializeMembers(t.members, 1, objectRef, objectJson, TRUE)
        names == {t.members[i].name : i \in 1..Len(t.members)}
    IN  [r EXCEPT !.ret = /\ r.ret
                          /\ \/ objectJson.k # "obj"
                             \/ DOMAIN objectJson.v \subseteq names]

deserializeObject(t, objectRef, objectJson) ==
    deserializeMembers(t.members, 1, objectRef, objectJson, TRUE)

\* a vector deserializer that empties the vector before the first item
deserializeVectorItemsOverwrites(itemType, obj, items, i) ==
    IF i > Len(items) THEN Res(TRUE, obj, FALSE, FALSE)
    ELSE
      LET r == Deserialize(itemType, DefaultOf(itemType), items[i])
          o2 == IF i = 1 THEN <<r.val>> ELSE Append(obj, r.val)
      IN  IF r.term \/ r.oob THEN Res(FALSE, o2, r.term, r.oob)
          ELSE IF ~r.ret THEN Res(FALSE, o2, FALSE, FALSE)
          ELSE deserializeVectorItems(itemType, o2, items, i + 1)

\* std::vector: every item of the document is appended to the vector
deserializeVectorItems(itemType, obj, items, i) ==
    IF i > Len(items) THEN Res(TRUE, obj, FALSE, FALSE)
    ELSE
      LET r == Deserialize(itemType, DefaultOf(itemType), items[i])
          o2 == Append(obj, r.val)
      IN  IF r.term \/ r.oob THEN Res(FALSE, o2, r.term, r.oob)
          ELSE IF ~r.ret THEN Res(FALSE, o2, FALSE, FALSE)
          ELSE deserializeVectorItems(itemType, o2, items, i + 1)

\* std::array: item i of the document goes to obj[idx], idx = i - 1, with no
\* check of idx against Size
deserializeArrayItems(itemType, size, obj, items, i) ==
    IF i > Len(items) THEN Res(TRUE, obj, FALSE, FALSE)
    ELSE IF i > size THEN Res(FALSE, obj, FALSE, TRUE)
    ELSE
      LET r == Deserialize(itemType, obj[i], items[i])
          o2 == [obj EXCEPT ![i] = r.val]
      IN  IF r.term \/ r.oob THEN Res(FALSE, o2, r.term, r.oob)
          ELSE IF ~r.ret THEN Res(FALSE, o2, FALSE, FALSE)
          ELSE deserializeArrayItems(itemType, size, o2, items, i + 1)

Deserialize(t, obj, json) ==
    CASE t.k = "prim" ->
            LET g == JsonGet(t.p, obj, json)
            IN  IF g.thrown THEN Res(FALSE, obj, TRUE, FALSE)
                ELSE Res(TRUE, g.val, FALSE, FALSE)
      [] t.k = "obj" -> deserializeObject(t, obj, json)
      [] t.k = "vec" -> deserializeVectorItems(t.item, obj, JsonItems(json), 1)
      [] t.k = "arr" ->
            deserializeArrayItems(t.item, t.size, obj, JsonItems(json), 1)

(***************************************************************************)
(* Serializer::Serialize into a fresh (null) json.                         *)
(***************************************************************************)
RECURSIVE Serialize(_, _)
RECURSIVE serializeMembers(_, _, _, _, _)
RECURSIVE serializeContainerItems(_, _, _, _)

\* the for_each over the declared members: objectJson[name] makes the json an
\* object and adds the key, then the member is serialized into it
serializeMembers(ms, i, objectRef, objectJson, successful) ==
    IF i > Len(ms) THEN [ret |-> successful, doc |-> objectJson]
    ELSE
      LET m == ms[i]
          fields == IF objectJson.k = "obj" THEN objectJson.v ELSE NoFields
          r == IF m.type.k = "enum"
               THEN Serialize(TPrim(m.type.p), ToUnderlying(objectRef[m.name]))
               ELSE Serialize(m.type, objectRef[m.name])
      IN  serializeMembers(ms, i + 1, objectRef,
                           JObj((m.name :> r.doc) @@ fields),
                           successful /\ r.ret)

\* a writing that leaves out the members that hold their default value
serializeObjectSkipsDefaults(t, objectRef) ==
    serializeMembers(SelectSeq(t.members,
                               LAMBDA m : objectRef[m.name] # DefaultOf(m.type)),
                     1, objectRef, JNull, TRUE)

serializeObject(t, objectRef) ==
    serializeMembers(t.members, 1, objectRef, JNull, TRUE)

\* a loop that returns after its first item
serializeContainerItemsFirst(itemType, container, i, jsonArray) ==
    IF i > Len(container) THEN [ret |-> TRUE, doc |-> JArr(jsonArray)]
    ELSE LET r == Serialize(itemType, container[i])
         IN  [ret |-> r.ret, doc |-> JArr(Append(jsonArray, r.doc))]

\* both overloads: emplace_back an item, serialize into it, return at the
\* first item that fails
serializeContainerItems(itemType, container, i, jsonArray) ==
    IF i > Len(container) THEN [ret |-> TRUE, doc |-> JArr(jsonArray)]
    ELSE
      LET r == Serialize(itemType, container[i])
          a2 == Append(jsonArray, r.doc)
      IN  IF ~r.ret THEN [ret |-> FALSE, doc |-> JArr(a2)]
          ELSE serializeContainerItems(itemType, container, i + 1, a2)

Serialize(t, obj) ==
    CASE t.k = "prim" -> [ret |-> TRUE, doc |-> ToJson(t.p, obj)]
      [] t.k = "obj" -> serializeObject(t, obj)
      [] t.k \in {"vec", "arr"} ->
            serializeContainerItems(t.item, obj, 1, <<>>)

(***************************************************************************)
(* The serializer's state: the reflected type at hand, the object in       *)
(* memory, the json document, the last returned bool, and whether the      *)
(* process still runs.  lastOp, objBefore, written and oob record what the *)
(* last operation was and what it started from.                            *)
(***************************************************************************)
VARIABLES type, obj, json, succ, proc, lastOp, objBefore, written, oob

serVars == <<type, obj, json, succ, proc, lastOp, objBefore, written, oob>>

(***************************************************************************)
(* The editor's state: the loaded Funscript (its actions and selection),   *)
(* the clipboard, and the UndoSystem's two stacks, top at the end.         *)
(***************************************************************************)
VARIABLES LoadedFunscript, CopiedSelection, UndoStack, RedoStack

edVars == <<LoadedFunscript, CopiedSelection, UndoStack, RedoStack>>

(***************************************************************************)
(* What a run is observed by: the action sequences a history run has gone  *)
(* through (the one it started from first, then the one after each edit),  *)
(* the undos and redos it has made since, and the simulator's slider: the  *)
(* playback position it was drawn for and the position it shows.           *)
(***************************************************************************)
VARIABLES seen, undone, redone, dropped, simulatorMs, simulatorPos

obsVars == <<seen, undone, redone, dropped, simulatorMs, simulatorPos>>

\* the timeline widget: its gradient (the marks in the order they were
\* added) and the flag that asks for it to be computed again; and what is
\* observed of it: the action sequence, duration and marks of the first
\* computation, the number of times the flag was raised since the last
\* computation, and whether the last drawing computed
VARIABLES grad, updateTimelineGradient, firstUpdate, pending, recomputed

gradVars == <<grad, updateTimelineGradient, firstUpdate, pending, recomputed>>

\* the file dialogs: the worker threads (where each is in its lambda, which
\* dialog it runs, what the dialog returned), the two static result buffers
\* (one shared by all open dialogs, one by all save dialogs), and SDL's event
\* queue; and what is observed of them: the threads that have used the
\* script or the history, and what the last handler read
VARIABLES thread, result, sdlQueue, timelineBy, handled

dlgVars == <<thread, result, sdlQueue, timelineBy, handled>>

uiVars == <<gradVars, dlgVars>>

vars == <<serVars, edVars, obsVars, uiVars>>

\* timestamps and positions of the drawn actions
Ats == {0, 10}
Poss == {0, 100}
ActionValues == [at : Ats, pos : Poss]

\* the action sequences of valid timelines: strictly ascending by at
SortedActions ==
    UNION {{s \in [1..n -> ActionValues] :
                \A i \in 1..(n - 1) : s[i].at < s[i + 1].at} : n \in 0..MaxLen}

Types == {TAction, TTimeline, TSample}

ValuesOf(t) ==
    CASE t = TAction -> ActionValues
      [] t = TTimeline -> {[actions |-> s] : s \in SortedActions}
      [] t = TSample ->
            {[mode |-> FromUnderlying(n), name |-> s, fixed |-> f] :
                n \in {0, 255}, s \in {"", "a"},
                f \in [1..ArraySize -> {0, 5}]}

\* the objects a json object can hold: any set of the keys, any of the values
ObjDocs(keys, valsOf(_)) ==
    UNION {{JObj(f) : f \in {g \in [ks -> UNION {valsOf(key) : key \in ks}] :
                                \A key \in ks : g[key] \in valsOf(key)}} :
           ks \in SUBSET keys}

ArrDocs(items, n) == UNION {{JArr(s) : s \in [1..len -> items]} : len \in 0..n}

Leaves == {JNull, JBool(TRUE), JNum(1), JStr("a")}

ActionFieldDocs(key) ==
    CASE key = "at" -> {JNum(0), JNum(10), JStr("a")}
      [] key = "pos" -> {JNum(100), JNull}
      [] OTHER -> {JNum(1)}

ActionDocs == Leaves \cup ObjDocs({"at", "pos", "extra"}, ActionFieldDocs)

ItemDocs ==
    {JObj([at |-> JNum(0), pos |-> JNum(0)]),
     JObj([at |-> JNum(10), pos |-> JNum(100)]),
     JObj([at |-> JNum(10)]),
     JObj([at |-> JStr("a"), pos |-> JNum(0)]),
     JNum(1)}

TimelineFieldDocs(key) ==
    CASE key = "actions" ->
            ArrDocs(ItemDocs, MaxLen)
                \cup {JNum(1), JNull, JObj([at |-> JNum(10), pos |-> JNum(100)])}
      [] OTHER -> {JNum(1)}

TimelineDocs == Leaves \cup ObjDocs({"actions", "extra"}, TimelineFieldDocs)

SampleFieldDocs(key) ==
    CASE key = "mode" -> {JNum(0), JNum(2), JNum(255), JNum(300), JStr("a")}
      [] key = "name" -> {JStr("a"), JNum(1)}
      [] key = "fixed" -> ArrDocs({JNum(5)}, ArraySize + 1) \cup {JNum(5)}
      [] OTHER -> {JNull}

SampleDocs == Leaves \cup ObjDocs({"mode", "name", "fixed", "extra"}, SampleFieldDocs)

\* the documents a file may hold
DocsOf(t) ==
    CASE t = TAction -> ActionDocs
      [] t = TTimeline -> TimelineDocs
      [] t = TSample -> SampleDocs

None == [has |-> FALSE]
Some(x) == [has |-> TRUE, val |-> x]

RECURSIVE VecLoad(_, _)
\* the longest std::vector inside a value
VecLoad(t, v) ==
    CASE t.k = "vec" -> Len(v)
      [] t.k = "obj" ->
            LET RECURSIVE Over(_)
                Over(i) == IF i > Len(t.members) THEN 0
                           ELSE LET a == VecLoad(t.members[i].type, v[t.members[i].name])
                                    b == Over(i + 1)
                                IN  IF a > b THEN a ELSE b
            IN  Over(1)
      [] OTHER -> 0

SerInit ==
    /\ type \in Types
    /\ obj \in ValuesOf(type)
    /\ json = JNull
    /\ succ = "none"
    /\ proc = "running"
    /\ lastOp = "init"
    /\ objBefore = obj
    /\ written = None
    /\ oob = FALSE

\* Serializer::Serialize(obj, json) with a fresh json
SerializeObject ==
    /\ proc = "running"
    /\ LET r == Serialize(type, obj)
       IN  /\ json' = r.doc
           /\ succ' = IF r.ret THEN "true" ELSE "false"
    /\ written' = Some(obj)
    /\ lastOp' = "serialize"
    /\ UNCHANGED <<type, obj, proc, objBefore, oob, edVars>>

\* a document is read and parsed from a file, for an object that has just
\* been made
ReadDocument ==
    /\ proc = "running"
    /\ lastOp \in {"init", "construct"}
    /\ \E d \in DocsOf(type) : json' = d
    /\ written' = None
    /\ succ' = "none"
    /\ lastOp' = "read"
    /\ objBefore' = obj
    /\ UNCHANGED <<type, obj, proc, oob, edVars>>

\* a new, default-constructed destination object
Construct ==
    /\ proc = "running"
    /\ obj' = DefaultOf(type)
    /\ succ' = "none"
    /\ lastOp' = "construct"
    /\ objBefore' = obj'
    /\ UNCHANGED <<type, json, proc, written, oob, edVars>>

\* the cap on the growth of a vector
Fits(r) == VecLoad(type, r.val) <= MaxVec

\* Serializer::Deserialize(obj, json) runs to its return
DeserializeReturns ==
    /\ proc = "running"
    /\ LET r == Deserialize(type, obj, json)
       IN  /\ ~r.term /\ ~r.oob
           /\ Fits(r)
           /\ obj' = r.val
           /\ succ' = IF r.ret THEN "true" ELSE "false"
    /\ oob' = FALSE
    /\ objBefore' = obj
    /\ lastOp' = "deserialize"
    /\ UNCHANGED <<type, json, proc, written, edVars>>

\* json.get<Type>() throws inside the noexcept Deserialize: std::terminate
DeserializeThrows ==
    /\ proc = "running"
    /\ LET r == Deserialize(type, obj, json)
       IN  /\ r.term
           /\ Fits(r)
           /\ obj' = r.val
    /\ proc' = "terminated"
    /\ succ' = "none"
    /\ oob' = FALSE
    /\ objBefore' = obj
    /\ lastOp' = "deserialize"
    /\ UNCHANGED <<type, json, written, edVars>>

\* obj[idx++] with idx >= Size: undefined behaviour.  The write lands outside
\* the array; the process crashes, or goes on and returns
DeserializeOutOfBounds ==
    /\ proc = "running"
    /\ LET r == Deserialize(type, obj, json)
       IN  /\ r.oob
           /\ Fits(r)
           /\ obj' = r.val
    /\ \E crash \in BOOLEAN :
           /\ proc' = IF crash THEN "terminated" ELSE "running"
           /\ succ' = IF crash THEN "none" ELSE "true"
    /\ oob' = TRUE
    /\ objBefore' = obj
    /\ lastOp' = "deserialize"
    /\ UNCHANGED <<type, json, written, edVars>>

(***************************************************************************)
(* The editor.  The Funscript (the timeline) and the UndoSystem are        *)
(* modelled from their specification; the commands are the shell's, from   *)
(* OpenFunscripter.cpp.                                                    *)
(***************************************************************************)
\* the values player.getFrameTimeMs() takes: the frame time of the video
FrameTimes == {1, 2}
\* no more entries than this on the undo stack
MaxUndo == 1

\* the playback positions and timestamps the model draws
Times == {0, 1, 2}
\* the timestamps an action can be moved or pasted to
AtRange == Times
\* the position of the shell's "action N" bindings that the model draws
Positions == {50}

Action(at, pos) == [at |-> at, pos |-> pos]
AtsOf(acts) == {acts[i].at : i \in 1..Len(acts)}
ActionAt(acts, at) == acts[CHOOSE i \in 1..Len(acts) : acts[i].at = at]

\* the actions of a set with distinct timestamps, in ascending order of at
SortedSeq(S) ==
    [i \in 1..Cardinality(S) |->
        CHOOSE a \in S : Cardinality({b \in S : b.at < a.at}) = i - 1]

Abs(x) == IF x < 0 THEN 0 - x ELSE x
Clamp(x, lo, hi) == IF x < lo THEN lo ELSE IF x > hi THEN hi ELSE x

\* a Funscript: its action sequence and the timestamps of the selected actions
Script(acts, sel) == [Actions |-> acts, selection |-> sel]

\* Funscript::AddOrUpdateAction: overwrite pos in place, or insert in order
AddOrUpdateAction(f, at, pos) ==
    IF at \in AtsOf(f.Actions)
    THEN Script([i \in 1..Len(f.Actions) |->
                    IF f.Actions[i].at = at THEN Action(at, pos)
                    ELSE f.Actions[i]],
                f.selection)
    ELSE LET n == Cardinality({i \in 1..Len(f.Actions) : f.Actions[i].at < at})
         IN  Script(SubSeq(f.Actions, 1, n) \o <<Action(at, pos)>>
                        \o SubSeq(f.Actions, n + 1, Len(f.Actions)),
                    f.selection)

\* Funscript::RemoveAction: by identity, and out of the selection with it
RemoveAction(f, at) ==
    Script(SelectSeq(f.Actions, LAMBDA a : a.at # at), f.selection \ {at})

\* Funscript::RemoveSelectedActions
RemoveSelectedActions(f) ==
    Script(SelectSeq(f.Actions, LAMBDA a : a.at \notin f.selection), {})

\* Funscript::GetActionAtTime: the timestamps of the actions within the
\* tolerance that are closest to timeMs (two when equally close; none)
GetActionAtTime(f, timeMs, toleranceMs) ==
    LET near == {at \in AtsOf(f.Actions) : Abs(at - timeMs) <= toleranceMs}
    IN  {at \in near : \A other \in near : Abs(at - timeMs) <= Abs(other - timeMs)}

\* Funscript::GetPositionAtTime: 0 for an empty sequence, the first or last
\* action's pos outside the span, and between two actions the value on the
\* line through them; where that value is not a whole number the result is
\* one of the two whole numbers next to it
GetPositionAtTime(f, timeMs) ==
    LET acts == f.Actions
        n == Len(acts)
    IN  IF n = 0 THEN {0}
        ELSE IF timeMs <= acts[1].at THEN {acts[1].pos}
        ELSE IF timeMs >= acts[n].at THEN {acts[n].pos}
        ELSE LET i == CHOOSE k \in 1..(n - 1) :
                          acts[k].at <= timeMs /\ timeMs < acts[k + 1].at
                 den == acts[i + 1].at - acts[i].at
                 num == acts[i].pos * den
                           + (acts[i + 1].pos - acts[i].pos) * (timeMs - acts[i].at)
             IN  {num \div den, (num + den - 1) \div den}

\* Funscript::PasteAction: an action within the tolerance gives way to the
\* pasted one, which is then inserted as by AddOrUpdateAction
PasteAction(f, a, toleranceMs) ==
    LET near == GetActionAtTime(f, a.at, toleranceMs)
        g == IF near = {} THEN f
             ELSE RemoveAction(f, CHOOSE at \in near : \A o \in near : at <= o)
    IN  AddOrUpdateAction(g, a.at, a.pos)

\* Funscript::MoveSelectionTime: the selected actions shifted and the
\* sequence sorted again; where a moved action lands on an unselected one,
\* one of the two survives: the moved one when movedWins, else the other
MoveSelectionTime(f, deltaMs, movedWins) ==
    LET shifted == {Action(a.at + deltaMs, a.pos) :
                      a \in {ActionAt(f.Actions, at) : at \in f.selection}}
        rest == {f.Actions[i] : i \in {j \in 1..Len(f.Actions) :
                      f.Actions[j].at \notin f.selection}}
        moved == IF movedWins THEN shifted
                 ELSE {m \in shifted : m.at \notin {r.at : r \in rest}}
        kept == {r \in rest : r.at \notin {m.at : m \in moved}}
    IN  Script(SortedSeq(kept \cup moved), {m.at : m \in moved})

\* Funscript::MoveSelectionPosition: pos shifted and clamped into 0..100
MoveSelectionPosition(f, deltaPos) ==
    Script([i \in 1..Len(f.Actions) |->
                IF f.Actions[i].at \in f.selection
                THEN Action(f.Actions[i].at,
                            Clamp(f.Actions[i].pos + deltaPos, 0, 100))
                ELSE f.Actions[i]],
           f.selection)

\* Funscript::SelectAll
SelectAll(f) == Script(f.Actions, AtsOf(f.Actions))

\* Funscript::SelectAction: toggles an action of the sequence
SelectAction(f, at) ==
    IF at \notin AtsOf(f.Actions) THEN f
    ELSE IF at \in f.selection THEN Script(f.Actions, f.selection \ {at})
    ELSE Script(f.Actions, f.selection \cup {at})

\* Funscript::Selection(): the selected actions, in order of time
Selection(f) == SelectSeq(f.Actions, LAMBDA a : a.at \in f.selection)

HasSelection(f) == f.selection # {}

\* a state of the script replaces the live one; the selection is resolved
\* against the new sequence
Rollback(f, acts) == Script(acts, f.selection \cap AtsOf(acts))

\* an undo/redo entry: the label and a copy of the action sequence
Entry(label, acts) == [Message |-> label, Actions |-> acts]

\* the action sequences a funscript file can hold
FileActions ==
    UNION {{SortedSeq(S) : S \in {T \in SUBSET [at : Times, pos : Positions] :
                /\ Cardinality(T) = n
                /\ \A a, b \in T : a.at = b.at => a = b}} : n \in 0..MaxLen}

EdInit ==
    /\ LoadedFunscript = Script(<<>>, {})
    /\ CopiedSelection = <<>>
    /\ UndoStack = <<>>
    /\ RedoStack = <<>>

\* UndoSystem::Snapshot: the action sequence as it is now goes on the undo
\* stack under the label, and the redo stack is cleared
Snapshot(label) ==
    /\ UndoStack' = Append(UndoStack, Entry(label, LoadedFunscript.Actions))
    /\ RedoStack' = <<>>

\* UndoSystem::Undo
Undo ==
    IF UndoStack = <<>> THEN UNCHANGED edVars
    ELSE LET top == UndoStack[Len(UndoStack)]
         IN  /\ RedoStack' = Append(RedoStack,
                                    Entry(top.Message, LoadedFunscript.Actions))
             /\ LoadedFunscript' = Rollback(LoadedFunscript, top.Actions)
             /\ UndoStack' = SubSeq(UndoStack, 1, Len(UndoStack) - 1)
             /\ UNCHANGED CopiedSelection

\* UndoSystem::Redo
Redo ==
    IF RedoStack = <<>> THEN UNCHANGED edVars
    ELSE LET top == RedoStack[Len(RedoStack)]
         IN  /\ UndoStack' = Append(UndoStack,
                                    Entry(top.Message, LoadedFunscript.Actions))
             /\ LoadedFunscript' = Rollback(LoadedFunscript, top.Actions)
             /\ RedoStack' = SubSeq(RedoStack, 1, Len(RedoStack) - 1)
             /\ UNCHANGED CopiedSelection

\* UndoSystem::ClearHistory
ClearHistory ==
    /\ UndoStack' = <<>>
    /\ RedoStack' = <<>>

\* an undo that moves the entry over and leaves the live script as it is
undoKeepsLive ==
    /\ UndoStack # <<>>
    /\ RedoStack' = Append(RedoStack, UndoStack[Len(UndoStack)])
    /\ UndoStack' = SubSeq(UndoStack, 1, Len(UndoStack) - 1)
    /\ UNCHANGED <<LoadedFunscript, CopiedSelection, serVars>>

\* a redo that moves the entry over and leaves the live script as it is
redoKeepsLive ==
    /\ RedoStack # <<>>
    /\ UndoStack' = Append(UndoStack, RedoStack[Len(RedoStack)])
    /\ RedoStack' = SubSeq(RedoStack, 1, Len(RedoStack) - 1)
    /\ UNCHANGED <<LoadedFunscript, CopiedSelection, serVars>>

\* an undo that restores the entry and forgets the script it replaces
undoForgetsCurrent ==
    /\ IF UndoStack = <<>> THEN UNCHANGED edVars
       ELSE /\ LoadedFunscript' = Rollback(LoadedFunscript,
                                           UndoStack[Len(UndoStack)].Actions)
            /\ UndoStack' = SubSeq(UndoStack, 1, Len(UndoStack) - 1)
            /\ UNCHANGED <<RedoStack, CopiedSelection>>
    /\ UNCHANGED serVars

\* a manual snapshot that leaves the Redo stack as it is
ManualSnapshotKeepsRedo ==
    /\ UndoStack' = Append(UndoStack,
                           Entry("Manual snapshot", LoadedFunscript.Actions))
    /\ UNCHANGED <<RedoStack, LoadedFunscript, CopiedSelection, serVars>>

\* the "undo" binding and the Edit menu's Undo item
undo ==
    /\ Undo
    /\ UNCHANGED serVars

\* the "redo" binding and the Edit menu's Redo item
redo ==
    /\ Redo
    /\ UNCHANGED serVars

\* the Edit menu's "Manual Snapshot" item
ManualSnapshot ==
    /\ Snapshot("Manual snapshot")
    /\ UNCHANGED <<LoadedFunscript, CopiedSelection, serVars>>

\* an addEditAction that puts the action at the end of the sequence
addEditActionAppended(ms, pos) ==
    /\ Snapshot("Add/Edit Action")
    /\ LoadedFunscript' = Script(Append(LoadedFunscript.Actions, Action(ms, pos)),
                                 LoadedFunscript.selection)
    /\ UNCHANGED <<CopiedSelection, serVars>>

\* an addEditAction that inserts in order without looking for the timestamp
addEditActionInserted(ms, pos) ==
    LET acts == LoadedFunscript.Actions
        n == Cardinality({i \in 1..Len(acts) : acts[i].at < ms})
    IN  /\ Snapshot("Add/Edit Action")
        /\ LoadedFunscript' = Script(SubSeq(acts, 1, n) \o <<Action(ms, pos)>>
                                         \o SubSeq(acts, n + 1, Len(acts)),
                                     LoadedFunscript.selection)
        /\ UNCHANGED <<CopiedSelection, serVars>>

\* OpenFunscripter::addEditAction(pos), at the playback position ms;
\* scripting.addEditAction hands the action to the Funscript
addEditActionAt(ms, pos) ==
    /\ Snapshot("Add/Edit Action")
    /\ LoadedFunscript' = AddOrUpdateAction(LoadedFunscript, ms, pos)
    /\ UNCHANGED <<CopiedSelection, serVars>>

addEditAction ==
    \E ms \in Times, pos \in Positions :
        addEditActionAt(ms, pos)

\* a removeAction whose snapshot shares the live sequence instead of copying
\* it: the removal shows in the entry
removeActionAtShared(at) ==
    /\ LoadedFunscript' = RemoveAction(LoadedFunscript, at)
    /\ UndoStack' = Append(UndoStack,
                           Entry("Remove action", LoadedFunscript'.Actions))
    /\ RedoStack' = <<>>
    /\ UNCHANGED <<CopiedSelection, serVars>>

\* OpenFunscripter::removeAction(const FunscriptAction&)
removeActionAt(at) ==
    /\ Snapshot("Remove action")
    /\ LoadedFunscript' = RemoveAction(LoadedFunscript, at)
    /\ UNCHANGED <<CopiedSelection, serVars>>

\* OpenFunscripter::removeAction(), at the playback position ms of a video
\* with frame time FrameTimeMs
removeActionAtCursor(ms, FrameTimeMs) ==
    IF HasSelection(LoadedFunscript)
    THEN /\ Snapshot("Removed selection")
         /\ LoadedFunscript' = RemoveSelectedActions(LoadedFunscript)
         /\ UNCHANGED <<CopiedSelection, serVars>>
    ELSE LET action == GetActionAtTime(LoadedFunscript, ms, FrameTimeMs)
         IN  IF action # {}
             THEN \E at \in action : removeActionAt(at)
             ELSE UNCHANGED <<edVars, serVars>>

removeAction ==
    \E ms \in Times, FrameTimeMs \in FrameTimes :
        removeActionAtCursor(ms, FrameTimeMs)

\* OpenFunscripter::copySelection
copySelection ==
    /\ IF HasSelection(LoadedFunscript)
       THEN CopiedSelection' = Selection(LoadedFunscript)
       ELSE UNCHANGED CopiedSelection
    /\ UNCHANGED <<LoadedFunscript, UndoStack, RedoStack, serVars>>

\* a cutSelection that takes its snapshot after the removal
cutSelectionSnapshotsLate ==
    IF HasSelection(LoadedFunscript)
    THEN /\ CopiedSelection' = Selection(LoadedFunscript)
         /\ LoadedFunscript' = RemoveSelectedActions(LoadedFunscript)
         /\ UndoStack' = Append(UndoStack,
                                Entry("Cut selection", LoadedFunscript'.Actions))
         /\ RedoStack' = <<>>
         /\ UNCHANGED serVars
    ELSE UNCHANGED <<edVars, serVars>>

\* a cutSelection that takes its snapshot before it looks at the selection
cutSelectionSnapshotsFirst ==
    /\ Snapshot("Cut selection")
    /\ IF HasSelection(LoadedFunscript)
       THEN /\ CopiedSelection' = Selection(LoadedFunscript)
            /\ LoadedFunscript' = RemoveSelectedActions(LoadedFunscript)
       ELSE UNCHANGED <<LoadedFunscript, CopiedSelection>>
    /\ UNCHANGED serVars

\* OpenFunscripter::cutSelection
cutSelection ==
    IF HasSelection(LoadedFunscript)
    THEN /\ CopiedSelection' = Selection(LoadedFunscript)
         /\ Snapshot("Cut selection")
         /\ LoadedFunscript' = RemoveSelectedActions(LoadedFunscript)
         /\ UNCHANGED serVars
    ELSE UNCHANGED <<edVars, serVars>>

RECURSIVE PasteAll(_, _, _, _, _)
\* the loop of pasteSelection: one PasteAction per copied action
PasteAll(f, copied, i, offset_ms, FrameTimeMs) ==
    IF i > Len(copied) THEN f
    ELSE PasteAll(PasteAction(f, Action(copied[i].at + offset_ms, copied[i].pos),
                              FrameTimeMs),
                  copied, i + 1, offset_ms, FrameTimeMs)

\* a pasteSelection that works out the offset anew for every copied action,
\* so that each of them lands on the playback position
pasteSelectionAtCursorEach(ms, FrameTimeMs) ==
    IF Len(CopiedSelection) = 0 THEN UNCHANGED <<edVars, serVars>>
    ELSE LET onCursor == [i \in 1..Len(CopiedSelection) |->
                             Action(ms, CopiedSelection[i].pos)]
             pasted == PasteAll(LoadedFunscript, onCursor, 1, 0, FrameTimeMs)
         IN  /\ Snapshot("Paste copied actions")
             /\ LoadedFunscript' = pasted
             /\ UNCHANGED <<CopiedSelection, serVars>>

\* OpenFunscripter::pasteSelection, at the playback position ms
pasteSelectionAt(ms, FrameTimeMs) ==
    IF Len(CopiedSelection) = 0 THEN UNCHANGED <<edVars, serVars>>
    ELSE LET offset_ms == ms - CopiedSelection[1].at
             pasted == PasteAll(LoadedFunscript, CopiedSelection, 1, offset_ms,
                               FrameTimeMs)
         IN  /\ AtsOf(pasted.Actions) \subseteq AtRange
             /\ Snapshot("Paste copied actions")
             /\ LoadedFunscript' = pasted
             /\ UNCHANGED <<CopiedSelection, serVars>>

pasteSelection ==
    \E ms \in Times, FrameTimeMs \in FrameTimes :
        pasteSelectionAt(ms, FrameTimeMs)

\* the bindings move_selection_left and move_selection_right
moveSelectionTime(deltaMs, movedWins) ==
    LET moved == MoveSelectionTime(LoadedFunscript, deltaMs, movedWins)
    IN  /\ AtsOf(moved.Actions) \subseteq AtRange
        /\ Snapshot("Selection moved")
        /\ LoadedFunscript' = moved
        /\ UNCHANGED <<CopiedSelection, serVars>>

move_selection_left ==
    \E FrameTimeMs \in FrameTimes, movedWins \in BOOLEAN :
        moveSelectionTime(0 - FrameTimeMs, movedWins)

move_selection_right ==
    \E FrameTimeMs \in FrameTimes, movedWins \in BOOLEAN :
        moveSelectionTime(FrameTimeMs, movedWins)

\* a position move that does not clamp
moveSelectionPositionUnclamped(deltaPos) ==
    /\ Snapshot("Selection moved")
    /\ LoadedFunscript' =
           Script([i \in 1..Len(LoadedFunscript.Actions) |->
                      IF LoadedFunscript.Actions[i].at \in LoadedFunscript.selection
                      THEN Action(LoadedFunscript.Actions[i].at,
                                  LoadedFunscript.Actions[i].pos + deltaPos)
                      ELSE LoadedFunscript.Actions[i]],
                  LoadedFunscript.selection)
    /\ UNCHANGED <<CopiedSelection, serVars>>

\* the bindings move_selection_up and move_selection_down
moveSelectionPosition(deltaPos) ==
    LET moved == MoveSelectionPosition(LoadedFunscript, deltaPos)
    IN  /\ Snapshot("Selection moved")
        /\ LoadedFunscript' = moved
        /\ UNCHANGED <<CopiedSelection, serVars>>

move_selection_up == moveSelectionPosition(1)

move_selection_down == moveSelectionPosition(-1)

\* the binding select_all and the Select menu's item
select_all ==
    /\ LoadedFunscript' = SelectAll(LoadedFunscript)
    /\ UNCHANGED <<CopiedSelection, UndoStack, RedoStack, serVars>>

\* OpenFunscripter::FunscriptActionClicked with Ctrl held, on a drawn action
FunscriptActionClicked ==
    /\ \E at \in AtsOf(LoadedFunscript.Actions) :
           LoadedFunscript' = SelectAction(LoadedFunscript, at)
    /\ UNCHANGED <<CopiedSelection, UndoStack, RedoStack, serVars>>

\* an openFunscript that carries the selection over to the new script
openFunscriptKeepsSelection ==
    /\ ClearHistory
    /\ \E acts \in FileActions :
           LoadedFunscript' = Script(acts, LoadedFunscript.selection)
    /\ UNCHANGED <<CopiedSelection, serVars>>

\* an openFunscript that does not clear the history
openFunscriptKeepsHistory ==
    /\ \E loaded \in BOOLEAN :
           IF loaded
           THEN \E acts \in FileActions : LoadedFunscript' = Script(acts, {})
           ELSE LoadedFunscript' = Script(<<>>, {})
    /\ UNCHANGED <<UndoStack, RedoStack, CopiedSelection, serVars>>

\* OpenFunscripter::openFunscript: a new Funscript, the history cleared, and
\* the file's actions loaded when the file exists and can be read
openFunscript ==
    /\ ClearHistory
    /\ \E loaded \in BOOLEAN :
           IF loaded
           THEN \E acts \in FileActions : LoadedFunscript' = Script(acts, {})
           ELSE LoadedFunscript' = Script(<<>>, {})
    /\ UNCHANGED <<CopiedSelection, serVars>>

\* no value: nothing computed yet
Nothing == [none |-> TRUE]

\* the timeline widget has not been drawn
GradIdle ==
    /\ grad = <<>>
    /\ updateTimelineGradient = FALSE
    /\ firstUpdate = Nothing
    /\ pending = 0
    /\ recomputed = FALSE

\* the worker threads of the file dialogs
Workers == {1, 2}

\* what a dialog returns: a path, or nothing when it is cancelled
Choices == {"", "a.funscript"}

NotStarted == [pc |-> "none", kind |-> "none", chosen |-> ""]

\* no file dialog has been shown
DlgIdle ==
    /\ thread = [w \in Workers |-> NotStarted]
    /\ result = [kind \in {"open", "save"} |-> ""]
    /\ sdlQueue = <<>>
    /\ timelineBy = {}
    /\ handled = Nothing

UiIdle == GradIdle /\ DlgIdle

\* nothing is being observed: no history run, and the slider is not drawn
ObsIdle ==
    /\ seen = <<>>
    /\ undone = 0
    /\ redone = 0
    /\ dropped = 0
    /\ simulatorMs = 0
    /\ simulatorPos = 0

\* a step of the command, with no more than MaxUndo entries on the undo
\* stack after it and nothing observed
Keep(command) ==
    /\ command
    /\ Len(UndoStack') <= MaxUndo
    /\ UNCHANGED <<obsVars, uiVars>>

Next ==
    \/ Keep(addEditAction)
    \/ Keep(removeAction)
    \/ Keep(copySelection)
    \/ Keep(cutSelection)
    \/ Keep(pasteSelection)
    \/ Keep(move_selection_left)
    \/ Keep(move_selection_right)
    \/ Keep(select_all)
    \/ Keep(FunscriptActionClicked)
    \/ Keep(undo)
    \/ Keep(redo)
    \/ Keep(ManualSnapshot)
    \/ Keep(openFunscript)

\* the serializer at rest
SerIdle ==
    /\ type = TTimeline
    /\ obj = DefaultOf(TTimeline)
    /\ json = JNull
    /\ succ = "none"
    /\ proc = "running"
    /\ lastOp = "init"
    /\ objBefore = obj
    /\ written = None
    /\ oob = FALSE

Init == EdInit /\ SerIdle /\ ObsIdle /\ UiIdle

Spec == Init /\ [][Next]_vars

SerNext ==
    \/ Keep(SerializeObject)
    \/ Keep(ReadDocument)
    \/ Keep(Construct)
    \/ Keep(DeserializeReturns)
    \/ Keep(DeserializeThrows)
    \/ Keep(DeserializeOutOfBounds)

\* the serializer with an object at hand, the editor at rest
SerStart == SerInit /\ EdInit /\ ObsIdle /\ UiIdle

SerSpec == SerStart /\ [][SerNext]_vars

(***************************************************************************)
(* A history run on a loaded script: edits, undos and then redos, and      *)
(* edits again.  seen holds the action sequence the run started from and   *)
(* the one after each edit that is still part of the history.              *)
(***************************************************************************)
\* no more edits than this in a history run
MaxRun == 2

HistInit ==
    /\ \E acts \in FileActions :
           /\ LoadedFunscript = Script(acts, {})
           /\ seen = <<acts>>
    /\ CopiedSelection = <<>>
    /\ UndoStack = <<>>
    /\ RedoStack = <<>>
    /\ undone = 0
    /\ redone = 0
    /\ dropped = 0
    /\ simulatorMs = 0
    /\ simulatorPos = 0
    /\ SerIdle
    /\ UiIdle

\* where the run stands in seen
Current == Len(seen) - undone + redone

\* an editing command of the run: when it takes its snapshot, what was
\* undone is no longer part of the run, and dropped is the number of Redo
\* entries the snapshot found
RunEdit(command) ==
    /\ command
    /\ Len(UndoStack') <= MaxRun
    /\ IF Len(UndoStack') > Len(UndoStack)
       THEN /\ seen' = Append(SubSeq(seen, 1, Current), LoadedFunscript'.Actions)
            /\ undone' = 0
            /\ redone' = 0
            /\ dropped' = Len(RedoStack)
       ELSE UNCHANGED <<seen, undone, redone, dropped>>
    /\ UNCHANGED <<simulatorMs, simulatorPos, uiVars>>

\* a command that changes the selection only
RunSelect(command) ==
    /\ command
    /\ UNCHANGED <<obsVars, uiVars>>

\* the undo binding, before any redo
RunUndo ==
    /\ redone = 0
    /\ undo
    /\ undone' = IF UndoStack # <<>> THEN undone + 1 ELSE undone
    /\ UNCHANGED <<seen, redone, dropped, simulatorMs, simulatorPos, uiVars>>

\* the redo binding
RunRedo ==
    /\ redo
    /\ redone' = IF RedoStack # <<>> THEN redone + 1 ELSE redone
    /\ UNCHANGED <<seen, undone, dropped, simulatorMs, simulatorPos, uiVars>>

HistNext ==
    \/ RunEdit(addEditAction)
    \/ RunEdit(removeAction)
    \/ RunEdit(move_selection_left)
    \/ RunEdit(ManualSnapshot)
    \/ RunSelect(select_all)
    \/ RunUndo
    \/ RunRedo

HistSpec == HistInit /\ [][HistNext]_vars

(***************************************************************************)
(* Positions: a loaded script whose actions sit at the ends of the range,  *)
(* edited with add/edit at either end and moved up and down.               *)
(***************************************************************************)
\* the positions the keys 0 and 100 give (addEditAction(0), addEditAction(100))
EndPositions == {0, 100}

\* the action sequences of a file whose actions have their pos in Ps
FileActionsWith(Ps) ==
    UNION {{SortedSeq(S) : S \in {T \in SUBSET [at : Times, pos : Ps] :
                /\ Cardinality(T) = n
                /\ \A a, b \in T : a.at = b.at => a = b}} : n \in 0..MaxLen}

\* the action sequences of a file whose actions are at the ends of the range
EndFileActions == FileActionsWith(EndPositions)

PosInit ==
    /\ \E acts \in EndFileActions : LoadedFunscript = Script(acts, {})
    /\ CopiedSelection = <<>>
    /\ UndoStack = <<>>
    /\ RedoStack = <<>>
    /\ SerIdle
    /\ ObsIdle
    /\ UiIdle

\* addEditAction(0) and addEditAction(100), at any playback position
addEditActionAtEnds ==
    \E ms \in Times, pos \in EndPositions :
        addEditActionAt(ms, pos)

PosNext ==
    \/ Keep(addEditActionAtEnds)
    \/ Keep(move_selection_up)
    \/ Keep(move_selection_down)
    \/ Keep(select_all)
    \/ Keep(FunscriptActionClicked)
    \/ Keep(undo)
    \/ Keep(redo)

PosSpec == PosInit /\ [][PosNext]_vars

(***************************************************************************)
(* The simulator window, drawn over a loaded script at a playback position *)
(* before, within and after the script's span.                             *)
(***************************************************************************)
\* player.getCurrentPositionMs() when the window is drawn
SimTimes == -1..3

\* the positions of the loaded actions, and where the slider can be dragged
SimPositions == {0, 25, 100}

SimInit ==
    /\ \E acts \in FileActionsWith(SimPositions) :
           LoadedFunscript = Script(acts, {})
    /\ CopiedSelection = <<>>
    /\ UndoStack = <<>>
    /\ RedoStack = <<>>
    /\ SerIdle
    /\ ObsIdle
    /\ UiIdle

\* a slider that shows the pos of the action before the playback position
ShowSimulatorPrevious(ms) ==
    /\ simulatorPos' =
           IF \E i \in 1..Len(LoadedFunscript.Actions) :
                  LoadedFunscript.Actions[i].at <= ms
           THEN LET i == CHOOSE k \in 1..Len(LoadedFunscript.Actions) :
                            /\ LoadedFunscript.Actions[k].at <= ms
                            /\ \A j \in (k + 1)..Len(LoadedFunscript.Actions) :
                                   LoadedFunscript.Actions[j].at > ms
                IN  LoadedFunscript.Actions[i].pos
           ELSE 0
    /\ simulatorMs' = ms
    /\ UNCHANGED <<edVars, serVars, seen, undone, redone, dropped, uiVars>>

\* ShowSimulatorWindow while playing, or paused with no action at the
\* playback position: the disabled slider shows GetPositionAtTime
ShowSimulatorPosition(ms) ==
    /\ \E pos \in GetPositionAtTime(LoadedFunscript, ms) :
           simulatorPos' = pos
    /\ simulatorMs' = ms
    /\ UNCHANGED <<edVars, serVars, seen, undone, redone, dropped, uiVars>>

\* ShowSimulatorWindow while paused on an action: the slider shows the
\* action's pos, and a drag released on another value commits it with
\* addEditAction
ShowSimulatorAction(ms, at) ==
    \/ /\ simulatorPos' = ActionAt(LoadedFunscript.Actions, at).pos
       /\ simulatorMs' = ms
       /\ UNCHANGED <<edVars, serVars, seen, undone, redone, dropped, uiVars>>
    \/ \E dummyPos \in SimPositions :
           /\ dummyPos # ActionAt(LoadedFunscript.Actions, at).pos
           /\ addEditActionAt(ms, dummyPos)
           /\ Len(UndoStack') <= MaxUndo
           /\ simulatorPos' = dummyPos
           /\ simulatorMs' = ms
           /\ UNCHANGED <<seen, undone, redone, dropped, uiVars>>

\* OpenFunscripter::ShowSimulatorWindow
ShowSimulatorWindow ==
    \E isPaused \in BOOLEAN, ms \in SimTimes, FrameTimeMs \in FrameTimes :
        LET scriptAction == GetActionAtTime(LoadedFunscript, ms, FrameTimeMs)
        IN  IF ~isPaused \/ scriptAction = {}
            THEN ShowSimulatorPosition(ms)
            ELSE \E at \in scriptAction : ShowSimulatorAction(ms, at)

SimNext == ShowSimulatorWindow

SimSpec == SimInit /\ [][SimNext]_vars

(***************************************************************************)
(* The timeline widget's gradient.  Times and durations are milliseconds;  *)
(* a mark's position is the fraction num / den, and its colour is the      *)
(* point of the heat ramp it was taken from, in 49ths.                     *)
(***************************************************************************)
kernel_size_ms == 5000

\* max_actions_in_kernel is 24.5: counts are compared doubled, against 49
max_actions_in_kernel_x2 == 49

\* IM_COL32(0, 0, 0, 255), which is also the ramp's colour at 0
Black == 0

\* ImGradient::clear and ImGradient::addMark
clear(g) == <<>>
addMark(g, num, den, color) ==
    Append(g, [num |-> num, den |-> den, color |-> color])

RECURSIVE CountInKernel(_, _, _, _, _)
\* the for loop of UpdateTimelineGradient over the actions, from index i
CountInKernel(acts, i, kernel_start, kernel_end, actions_in_kernel) ==
    IF i > Len(acts) THEN actions_in_kernel
    ELSE IF acts[i].at >= kernel_start /\ acts[i].at <= kernel_end
    THEN CountInKernel(acts, i + 1, kernel_start, kernel_end,
                       actions_in_kernel + 1)
    ELSE IF acts[i].at > kernel_end
    THEN actions_in_kernel
    ELSE CountInKernel(acts, i + 1, kernel_start, kernel_end,
                       actions_in_kernel)

\* actions_in_kernel of the window that starts at kernel_offset
ActionsInKernel(acts, kernel_offset) ==
    IF kernel_offset < acts[Len(acts)].at
    THEN CountInKernel(acts, 1, kernel_offset, kernel_offset + kernel_size_ms, 0)
    ELSE 0

\* Util::Clamp(actions_in_kernel / max_actions_in_kernel, 0, 1), in 49ths,
\* which HeatMap.computeColorAt turns into the mark's colour
HeatColor(actions_in_kernel) ==
    Clamp(2 * actions_in_kernel, 0, max_actions_in_kernel_x2)

RECURSIVE Kernels(_, _, _, _)
\* the do-while loop of UpdateTimelineGradient, from kernel_offset on
Kernels(g, acts, durationMs, kernel_offset) ==
    LET actions_in_kernel == ActionsInKernel(acts, kernel_offset)
        next_offset == kernel_offset + kernel_size_ms
        marked == addMark(g,
                          next_offset + (kernel_size_ms \div 2) - kernel_size_ms,
                          durationMs,
                          HeatColor(actions_in_kernel))
    IN  IF next_offset < durationMs
        THEN Kernels(marked, acts, durationMs, next_offset)
        ELSE marked

\* an UpdateTimelineGradient that does not clear the gradient first
UpdateTimelineGradientKeepsMarks(g, acts, durationMs) ==
    LET ends == addMark(addMark(g, 0, 1, Black), 1, 1, Black)
    IN  IF Len(acts) = 0 THEN ends
        ELSE Kernels(ends, acts, durationMs, 0)

\* OpenFunscripter::UpdateTimelineGradient
UpdateTimelineGradient(g, acts, durationMs) ==
    LET ends == addMark(addMark(clear(g), 0, 1, Black), 1, 1, Black)
    IN  IF Len(acts) = 0 THEN ends
        ELSE Kernels(ends, acts, durationMs, 0)

\* OpenFunscripter::FunscriptChanged, the handler of
\* FunscriptActionsChangedEvent
FunscriptChanged ==
    /\ updateTimelineGradient' = TRUE
    /\ pending' = pending + 1
    /\ UNCHANGED <<grad, firstUpdate, recomputed>>
    /\ UNCHANGED <<serVars, edVars, obsVars, dlgVars>>

\* a DrawTimelineWidget that computes the gradient and leaves the flag up
DrawTimelineWidgetKeepsFlag(visible, durationMs) ==
    /\ IF visible /\ updateTimelineGradient
       THEN /\ grad' = UpdateTimelineGradient(grad, LoadedFunscript.Actions,
                                              durationMs)
            /\ pending' = 0
            /\ recomputed' = TRUE
            /\ UNCHANGED <<updateTimelineGradient, firstUpdate>>
       ELSE /\ recomputed' = FALSE
            /\ UNCHANGED <<grad, updateTimelineGradient, firstUpdate, pending>>
    /\ UNCHANGED <<serVars, edVars, obsVars, dlgVars>>

\* OpenFunscripter::DrawTimelineWidget for a video of durationMs: nothing
\* when the item is skipped or clipped; else the gradient is computed again
\* if the flag is up, and drawn
DrawTimelineWidget(visible, durationMs) ==
    /\ IF visible /\ updateTimelineGradient
       THEN /\ updateTimelineGradient' = FALSE
            /\ grad' = UpdateTimelineGradient(grad, LoadedFunscript.Actions,
                                              durationMs)
            /\ firstUpdate' =
                  IF firstUpdate = Nothing
                  THEN [Actions |-> LoadedFunscript.Actions,
                        durationMs |-> durationMs,
                        marks |-> grad',
                        others |-> FALSE]
                  ELSE [firstUpdate EXCEPT !.others =
                            \/ @
                            \/ firstUpdate.Actions # LoadedFunscript.Actions
                            \/ firstUpdate.durationMs # durationMs]
            /\ pending' = 0
            /\ recomputed' = TRUE
       ELSE /\ recomputed' = FALSE
            /\ UNCHANGED <<grad, updateTimelineGradient, firstUpdate, pending>>
    /\ UNCHANGED <<serVars, edVars, obsVars, dlgVars>>

\* no more change events than this between two computations
MaxPending == 2

\* at of the loaded actions: at the start, and on and past a window's end
GradTimes == {0, 5000, 6000}

\* player.getDuration() * 1000: one window, a window and a part, two windows
GradDurations == {5000, 6000, 10000}

GradFileActions ==
    UNION {{SortedSeq(S) : S \in {T \in SUBSET [at : GradTimes, pos : Positions] :
                /\ Cardinality(T) = n
                /\ \A a, b \in T : a.at = b.at => a = b}} : n \in 0..MaxLen}

GradInit ==
    /\ \E acts \in GradFileActions : LoadedFunscript = Script(acts, {})
    /\ CopiedSelection = <<>>
    /\ UndoStack = <<>>
    /\ RedoStack = <<>>
    /\ grad = <<>>
    /\ updateTimelineGradient \in BOOLEAN
    /\ pending = IF updateTimelineGradient THEN 1 ELSE 0
    /\ firstUpdate = Nothing
    /\ recomputed = FALSE
    /\ SerIdle
    /\ ObsIdle
    /\ DlgIdle

GradNext ==
    \/ /\ pending < MaxPending
       /\ FunscriptChanged
    \/ \E visible \in BOOLEAN, durationMs \in GradDurations :
           DrawTimelineWidget(visible, durationMs)
    \/ Keep(removeAction)
    \/ Keep(undo)

GradSpec == GradInit /\ [][GradNext]_vars

(***************************************************************************)
(* The clipboard commands on a script that was loaded from a file.         *)
(***************************************************************************)
ClipInit ==
    /\ \E acts \in FileActions : LoadedFunscript = Script(acts, {})
    /\ CopiedSelection = <<>>
    /\ UndoStack = <<>>
    /\ RedoStack = <<>>
    /\ SerIdle
    /\ ObsIdle
    /\ UiIdle

ClipNext ==
    \/ Keep(select_all)
    \/ Keep(copySelection)
    \/ Keep(cutSelection)
    \/ Keep(pasteSelection)
    \/ Keep(removeAction)
    \/ Keep(undo)
    \/ Keep(openFunscript)

ClipSpec == ClipInit /\ [][ClipNext]_vars

(***************************************************************************)
(* The file dialogs.  showOpenFileDialog and showSaveFileDialog start a    *)
(* detached thread each; the thread runs the dialog, assigns what it       *)
(* returned to the static result of its lambda, and pushes an SDL event    *)
(* whose data1 points to that static; the main thread handles the event.   *)
(***************************************************************************)
\* SDL_CreateThread: the first thread not yet started runs the lambda and
\* shows the dialog
CreateThread(kind) ==
    /\ \E w \in Workers :
          /\ thread[w].pc = "none"
          /\ \A v \in Workers : v < w => thread[v].pc # "none"
          /\ thread' = [thread EXCEPT ![w] =
                           [pc |-> "dialog", kind |-> kind, chosen |-> ""]]
    /\ UNCHANGED <<result, sdlQueue, timelineBy, handled>>
    /\ UNCHANGED <<serVars, edVars, obsVars, gradVars>>

\* OpenFunscripter::showOpenFileDialog, on the main thread
showOpenFileDialog == CreateThread("open")

\* OpenFunscripter::showSaveFileDialog, on the main thread
showSaveFileDialog == CreateThread("save")

\* in the worker: the dialog returns what the user chose and the assignment
\* to the static result begins
DialogReturns(w) ==
    /\ thread[w].pc = "dialog"
    /\ \E c \in Choices :
          thread' = [thread EXCEPT ![w].pc = "writing", ![w].chosen = c]
    /\ UNCHANGED <<result, sdlQueue, timelineBy, handled>>
    /\ UNCHANGED <<serVars, edVars, obsVars, gradVars>>

\* another thread is in the middle of its assignment to the same static
OtherWriter(w, kind) ==
    \E v \in Workers \ {w} :
        thread[v].kind = kind /\ thread[v].pc = "writing"

\* in the worker: the assignment to the static result ends.  Two
\* assignments to the one static that overlap are a data race, after which
\* the static holds anything
ResultAssigned(w) ==
    /\ thread[w].pc = "writing"
    /\ \E c \in IF OtherWriter(w, thread[w].kind) THEN Choices
                ELSE {thread[w].chosen} :
          result' = [result EXCEPT ![thread[w].kind] = c]
    /\ thread' = [thread EXCEPT ![w].pc = "push"]
    /\ UNCHANGED <<sdlQueue, timelineBy, handled>>
    /\ UNCHANGED <<serVars, edVars, obsVars, gradVars>>

\* a worker that opens the chosen file itself instead of pushing the event
WorkerOpensFile(w) ==
    /\ thread[w].pc = "push"
    /\ openFunscript
    /\ timelineBy' = timelineBy \cup {w}
    /\ thread' = [thread EXCEPT ![w] = [pc |-> "done", kind |-> "none",
                                        chosen |-> ""]]
    /\ UNCHANGED <<result, sdlQueue, handled>>
    /\ UNCHANGED <<obsVars, gradVars>>

\* in the worker: SDL_PushEvent of the event with data1 = &result, and the
\* thread ends.  The event remembers who pushed it and what its dialog had
\* returned
PushEvent(w) ==
    /\ thread[w].pc = "push"
    /\ sdlQueue' = Append(sdlQueue, [type |-> thread[w].kind,
                                     data1 |-> thread[w].kind,
                                     from |-> w,
                                     chosen |-> thread[w].chosen])
    /\ thread' = [thread EXCEPT ![w] = [pc |-> "done", kind |-> "none",
                                        chosen |-> ""]]
    /\ UNCHANGED <<result, timelineBy, handled>>
    /\ UNCHANGED <<serVars, edVars, obsVars, gradVars>>

\* the main thread reads the static that data1 points to: what it holds, or
\* anything when a worker is in the middle of assigning to it (a data race)
ReadResult(ev, v) ==
    /\ v \in IF OtherWriter(0, ev.data1) THEN Choices ELSE {result[ev.data1]}
    /\ handled' = [from |-> ev.from,
                   chosen |-> ev.chosen,
                   read |-> v,
                   raced |-> OtherWriter(0, ev.data1)]

\* OpenFunscripter::openFile for a file that exists: the script that goes
\* with it is opened
openFile == openFunscript

\* OpenFunscripter::FileDialogOpenEvent, called from process_events on the
\* main thread for the event at the head of the queue
FileDialogOpenEvent ==
    /\ sdlQueue # <<>>
    /\ Head(sdlQueue).type = "open"
    /\ sdlQueue' = Tail(sdlQueue)
    /\ \E v \in Choices, FileExists \in BOOLEAN :
          /\ ReadResult(Head(sdlQueue), v)
          /\ IF v # "" /\ FileExists
             THEN /\ openFile
                  /\ timelineBy' = timelineBy \cup {0}
             ELSE UNCHANGED <<edVars, serVars, timelineBy>>
    /\ UNCHANGED <<thread, result>>
    /\ UNCHANGED <<obsVars, gradVars>>

\* OpenFunscripter::FileDialogSaveEvent, likewise; saveScript reads the
\* script and writes the file
FileDialogSaveEvent ==
    /\ sdlQueue # <<>>
    /\ Head(sdlQueue).type = "save"
    /\ sdlQueue' = Tail(sdlQueue)
    /\ \E v \in Choices :
          /\ ReadResult(Head(sdlQueue), v)
          /\ IF v # ""
             THEN timelineBy' = timelineBy \cup {0}
             ELSE UNCHANGED timelineBy
    /\ UNCHANGED <<thread, result>>
    /\ UNCHANGED <<serVars, edVars, obsVars, gradVars>>

DlgInit == EdInit /\ SerIdle /\ ObsIdle /\ UiIdle

DlgNext ==
    \/ showOpenFileDialog
    \/ showSaveFileDialog
    \/ \E w \in Workers : DialogReturns(w)
    \/ \E w \in Workers : ResultAssigned(w)
    \/ \E w \in Workers : PushEvent(w)
    \/ FileDialogOpenEvent
    \/ FileDialogSaveEvent
    \/ Keep(addEditAction)

DlgSpec == DlgInit /\ [][DlgNext]_vars

(***************************************************************************)
(* What a document means for a type, stated apart from the serializer.     *)
(***************************************************************************)
RECURSIVE WellFormed(_, _)
\* the document has the shape the type expects; an object may lack keys
WellFormed(t, doc) ==
    CASE t.k = "prim" ->
            (CASE t.p = "string" -> doc.k = "str"
               [] t.p = "bool" -> doc.k = "bool"
               [] OTHER -> doc.k = "num" /\ ArithCast(t.p, doc.v) = doc.v)
      [] t.k = "enum" -> doc.k = "num" /\ ArithCast(t.p, doc.v) = doc.v
      [] t.k = "obj" ->
            /\ doc.k = "obj"
            /\ \A n \in MemberNames(t) \cap DOMAIN doc.v :
                   WellFormed(MemberType(t, n), doc.v[n])
      [] t.k = "vec" ->
            /\ doc.k = "arr"
            /\ \A i \in 1..Len(doc.v) : WellFormed(t.item, doc.v[i])
      [] t.k = "arr" ->
            /\ doc.k = "arr"
            /\ Len(doc.v) <= t.size
            /\ \A i \in 1..Len(doc.v) : WellFormed(t.item, doc.v[i])

RECURSIVE Populated(_, _, _)
\* the value a well-formed document gives a destination that held before
Populated(t, before, doc) ==
    CASE t.k = "prim" -> doc.v
      [] t.k = "enum" -> [u |-> doc.v]
      [] t.k = "obj" ->
            [n \in MemberNames(t) |->
                IF n \in DOMAIN doc.v
                THEN Populated(MemberType(t, n), before[n], doc.v[n])
                ELSE before[n]]
      [] t.k = "vec" ->
            before \o [i \in 1..Len(doc.v) |->
                          Populated(t.item, DefaultOf(t.item), doc.v[i])]
      [] t.k = "arr" ->
            [i \in 1..t.size |->
                IF i <= Len(doc.v) THEN Populated(t.item, before[i], doc.v[i])
                ELSE before[i]]

\* the object document without the keys that name no declared member
StripUnknown(t, doc) ==
    JObj([n \in DOMAIN doc.v \cap MemberNames(t) |-> doc.v[n]])

RECURSIVE Complete(_, _, _)
\* the document holds the value in full: an entry for every declared member
\* and for every element, each leaf the value's own
Complete(t, v, doc) ==
    CASE t.k = "prim" ->
            (CASE t.p = "string" -> doc = JStr(v)
               [] t.p = "bool" -> doc = JBool(v)
               [] OTHER -> doc = JNum(v))
      [] t.k = "enum" -> doc = JNum(v.u)
      [] t.k = "obj" ->
            /\ doc.k = "obj"
            /\ DOMAIN doc.v = MemberNames(t)
            /\ \A n \in MemberNames(t) : Complete(MemberType(t, n), v[n], doc.v[n])
      [] t.k \in {"vec", "arr"} ->
            /\ doc.k = "arr"
            /\ Len(doc.v) = Len(v)
            /\ \A i \in 1..Len(v) : Complete(t.item, v[i], doc.v[i])

\* the sub-document of some declared member has not the shape of its type
MemberMismatch(t, doc) ==
    /\ doc.k = "obj"
    /\ \E n \in MemberNames(t) \cap DOMAIN doc.v :
           ~WellFormed(MemberType(t, n), doc.v[n])

\* the last operation deserialized the document that Serialize made of a
\* Timeline
RoundTripped ==
    /\ lastOp = "deserialize"
    /\ type = TTimeline
    /\ written.has

(***************************************************************************)
(* The serializer's properties, under SerSpec.                             *)
(***************************************************************************)
\* C1: Deserialize of the document Serialize made of a Timeline x returns
\* true and appends x's actions, in order, to the destination's; into a
\* destination with no actions the result is x's action sequence.
C1_RoundTripAppends ==
    RoundTripped =>
        /\ proc = "running"
        /\ succ = "true"
        /\ obj.actions = objBefore.actions \o written.val.actions
        /\ objBefore.actions = <<>> => obj.actions = written.val.actions

\* C1, as stated: whatever the destination held, the round trip yields x's
\* action sequence.
C1_RoundTripAnyDestination ==
    RoundTripped => obj.actions = written.val.actions

\* C1: a Timeline of two actions has come back equal in a new destination
C1_Witness ==
    /\ RoundTripped
    /\ objBefore = DefaultOf(TTimeline)
    /\ Len(written.val.actions) = 2
    /\ obj = written.val
    /\ succ = "true"

\* C2: Deserialize of a well-formed object document that lacks the key of a
\* declared member returns true, leaves every member whose key is absent as
\* the destination held it (so at its default in a default-constructed
\* destination), and gives every member whose key is present the value of
\* its sub-document.
C2_MissingKeyKeepsDefault ==
    ( /\ lastOp = "deserialize"
      /\ json.k = "obj"
      /\ WellFormed(type, json)
      /\ \E n \in MemberNames(type) : n \notin DOMAIN json.v )
    => /\ proc = "running"
       /\ succ = "true"
       /\ \A n \in MemberNames(type) :
            IF n \in DOMAIN json.v
            THEN obj[n] = Populated(MemberType(type, n), objBefore[n], json.v[n])
            ELSE /\ obj[n] = objBefore[n]
                 /\ objBefore = DefaultOf(type) =>
                        obj[n] = DefaultOf(MemberType(type, n))

\* C2: {"at": 10} has been read into a new action: at is 10, pos the default
C2_Witness ==
    /\ lastOp = "deserialize"
    /\ type = TAction
    /\ json = JObj([at |-> JNum(10)])
    /\ objBefore = DefaultOf(TAction)
    /\ obj = [at |-> 10, pos |-> 0]
    /\ succ = "true"

\* C3: Deserialize of an object document that has a key of no declared member
\* ends as Deserialize of the document without such keys does: the same
\* returned value, the same object, the same termination.
C3_UnknownKeyIgnored ==
    ( /\ lastOp = "deserialize"
      /\ json.k = "obj"
      /\ ~(DOMAIN json.v \subseteq MemberNames(type)) )
    => LET r == Deserialize(type, objBefore, StripUnknown(type, json))
       IN  /\ obj = r.val
           /\ oob = r.oob
           /\ r.term => proc = "terminated"
           /\ (~r.term /\ ~r.oob) =>
                  /\ proc = "running"
                  /\ succ = IF r.ret THEN "true" ELSE "false"

\* C3: {"at": 10, "pos": 100, "extra": 1} has been read into a new action
C3_Witness ==
    /\ lastOp = "deserialize"
    /\ type = TAction
    /\ json = JObj([at |-> JNum(10), pos |-> JNum(100), extra |-> JNum(1)])
    /\ objBefore = DefaultOf(TAction)
    /\ obj = [at |-> 10, pos |-> 100]
    /\ succ = "true"

\* C4, as stated: when the sub-document of a declared member has not the
\* shape of the member's type and Deserialize returns, it returns false.
C4_MismatchReturnsFalse ==
    ( /\ lastOp = "deserialize"
      /\ proc = "running"
      /\ ~oob
      /\ MemberMismatch(type, json) )
    => succ = "false"

\* C4: {"actions": 1}, a number where the array of actions is expected, has
\* been read into a new Timeline: true is returned and one default action
\* has been appended
C4_Witness ==
    /\ lastOp = "deserialize"
    /\ type = TTimeline
    /\ json = JObj([actions |-> JNum(1)])
    /\ objBefore = DefaultOf(TTimeline)
    /\ obj.actions = <<[at |-> 0, pos |-> 0]>>
    /\ proc = "running"
    /\ succ = "true"

\* C5, as stated: Deserialize of any document returns; the process is not
\* terminated.
C5_DeserializeAlwaysReturns ==
    (lastOp = "deserialize" /\ ~oob) => proc = "running"

\* C5: {"at": "a"}, a string where the int32 is expected, has terminated the
\* process
C5_Witness ==
    /\ lastOp = "deserialize"
    /\ type = TAction
    /\ json = JObj([at |-> JStr("a")])
    /\ ~oob
    /\ proc = "terminated"

C7_EnumByUnderlyingValue ==
    /\ ( /\ lastOp = "deserialize"
         /\ type = TSample
         /\ proc = "running"
         /\ Contains(json, "mode")
         /\ WellFormed(TEnum("uint8"), json.v.mode) )
       => ToUnderlying(obj.mode) = json.v.mode.v
    /\ (lastOp = "serialize" /\ type = TSample)
       => json.v.mode = JNum(ToUnderlying(written.val.mode))

\* C7: 255, which names no enumerator, has been read into a member that held
\* 0 and has been written again as 255
C7_Witness ==
    /\ lastOp = "serialize"
    /\ type = TSample
    /\ ToUnderlying(objBefore.mode) = 0
    /\ ToUnderlying(obj.mode) = 255
    /\ json.v.mode = JNum(255)

\* C8, as stated: Deserialize into a fixed-size sequence never accesses an
\* index past the sequence's end.
C8_ArrayIndexInBounds == ~oob

\* C8: an array of ArraySize + 1 elements has been read into the
\* std::array of ArraySize
C8_Witness ==
    /\ oob
    /\ lastOp = "deserialize"
    /\ type = TSample
    /\ Contains(json, "fixed")
    /\ json.v.fixed.k = "arr"
    /\ Len(json.v.fixed.v) = ArraySize + 1

(***************************************************************************)
(* The editor's properties, under Spec.                                    *)
(***************************************************************************)
\* the timestamps of an action sequence, in its order
AtSeq(acts) == [i \in 1..Len(acts) |-> acts[i].at]

\* the entry on top of the undo stack
LastSnapshot == UndoStack[Len(UndoStack)]

\* C9: whatever commands have run (adding, removing, moving the selection in
\* time either way by any frame time, with any selection), the action
\* sequence of the loaded script is strictly ascending by at: sorted, and no
\* two actions share an at.
C9_SortInvariant ==
    \A i \in 1..(Len(LoadedFunscript.Actions) - 1) :
        LoadedFunscript.Actions[i].at < LoadedFunscript.Actions[i + 1].at

\* C9: of the actions at 0 and 1 the selected first one has been moved right
\* by a frame time of 2, past the other, and the sequence is in order again
C9_Witness ==
    /\ UndoStack # <<>>
    /\ LastSnapshot.Message = "Selection moved"
    /\ AtSeq(LastSnapshot.Actions) = <<0, 1>>
    /\ AtSeq(LoadedFunscript.Actions) = <<1, 2>>
    /\ LoadedFunscript.selection = {2}

\* C10: whatever commands have run (add, remove, remove selection, cut,
\* paste, move selection, select, undo, redo, open file), every selected
\* action is an action of the loaded script's sequence.
C10_SelectionSubset ==
    LoadedFunscript.selection \subseteq AtsOf(LoadedFunscript.Actions)

\* C10: a selected action has been removed with the selection, out of the
\* sequence and out of the selection in one step
C10_Witness ==
    /\ UndoStack # <<>>
    /\ LastSnapshot.Message = "Removed selection"
    /\ AtSeq(LastSnapshot.Actions) = <<0, 2>>
    /\ AtSeq(LoadedFunscript.Actions) = <<0>>
    /\ LoadedFunscript.selection = {}

(***************************************************************************)
(* The history's properties.                                               *)
(***************************************************************************)
\* C11: in a run of edits (each a Snapshot and its mutation) followed by two
\* Undo(), the live action sequence is the one from before the last two
\* edits: Snapshot("a"), mutate, Snapshot("b"), mutate, Undo(), Undo() ends
\* in the state before Snapshot("a").
C11_UndoTwiceRestores ==
    (undone = 2 /\ redone = 0) =>
        /\ Len(seen) >= 3
        /\ LoadedFunscript.Actions = seen[Len(seen) - 2]

\* C11: two edits that changed the sequence have been undone
C11_Witness ==
    /\ Len(seen) = 3
    /\ seen[1] # seen[2]
    /\ seen[2] # seen[3]
    /\ seen[1] # seen[3]
    /\ undone = 2
    /\ redone = 0
    /\ LoadedFunscript.Actions = seen[1]
    /\ Len(RedoStack) = 2

\* C12: after two edits, two Undo() and two Redo(), the live action sequence
\* is the one from just before the first Undo(), the state after the last
\* edit.
C12_RedoTwiceRestoresLatest ==
    (undone = 2 /\ redone = 2) =>
        LoadedFunscript.Actions = seen[Len(seen)]

\* C12, as stated: after the two Redo() the live action sequence is the one
\* from just before the second Undo().
C12_RedoTwiceRestoresBeforeSecondUndo ==
    (undone = 2 /\ redone = 2) =>
        LoadedFunscript.Actions = seen[Len(seen) - 1]

\* C12: two edits, two undos and two redos have run; the script is as after
\* the second edit and not as before the second undo
C12_Witness ==
    /\ Len(seen) = 3
    /\ seen[2] # seen[3]
    /\ undone = 2
    /\ redone = 2
    /\ LoadedFunscript.Actions = seen[3]
    /\ RedoStack = <<>>

\* C13: an undo on a non-empty Undo stack pushes the current live action
\* sequence onto Redo, takes the top entry off Undo and makes its actions
\* the live sequence; an undo on an empty Undo stack changes neither stack
\* nor the script.
C13_UndoStep ==
    [][undo =>
        IF UndoStack # <<>>
        THEN /\ Len(RedoStack') = Len(RedoStack) + 1
             /\ SubSeq(RedoStack', 1, Len(RedoStack)) = RedoStack
             /\ RedoStack'[Len(RedoStack')].Actions = LoadedFunscript.Actions
             /\ UndoStack' = SubSeq(UndoStack, 1, Len(UndoStack) - 1)
             /\ LoadedFunscript'.Actions = UndoStack[Len(UndoStack)].Actions
        ELSE UNCHANGED <<UndoStack, RedoStack, LoadedFunscript>>]_vars

\* C13: an undo has put the replaced sequence on Redo and an older one in
\* the script
C13_Witness ==
    /\ UndoStack = <<>>
    /\ Len(RedoStack) = 1
    /\ RedoStack[1].Actions # LoadedFunscript.Actions
    /\ RedoStack[1].Message = "Add/Edit Action"

\* C14: a snapshot taken by an edit (the manual snapshot included) leaves
\* the Redo stack empty: every step that puts an entry on the Undo stack
\* is a redo or leaves the Redo stack empty; and a redo on an empty Redo
\* stack changes nothing.
C14_LinearHistory ==
    [][/\ Len(UndoStack') > Len(UndoStack) => (RedoStack' = <<>> \/ redo)
       /\ (RedoStack = <<>> /\ redo) => UNCHANGED edVars]_vars

\* C14: the last edit's snapshot came after an undo and found entries on
\* Redo; none is left
C14_Witness ==
    /\ dropped > 0
    /\ UndoStack # <<>>
    /\ RedoStack = <<>>
    /\ undone = 0

\* C15: openFunscript, whether the file loads or not, leaves a fresh script
\* (nothing selected, holding the file's actions or none) and both stacks
\* empty.
C15_OpenResets ==
    [][openFunscript =>
        /\ UndoStack' = <<>>
        /\ RedoStack' = <<>>
        /\ LoadedFunscript'.selection = {}
        /\ LoadedFunscript'.Actions \in FileActions]_vars

\* C15: a script with actions and no history, which only a load leaves
C15_Witness ==
    /\ Len(LoadedFunscript.Actions) = 2
    /\ LoadedFunscript.selection = {}
    /\ UndoStack = <<>>
    /\ RedoStack = <<>>
    /\ CopiedSelection # <<>>

(***************************************************************************)
(* The timeline's properties.                                              *)
(***************************************************************************)
\* C18: an add/edit at a timestamp the sequence already holds overwrites the
\* pos of that action only and leaves the number of actions as it was; at
\* any other timestamp it adds exactly one action and changes no other.
C18_AddOrUpdate ==
    [][\A ms \in Times, pos \in EndPositions :
          addEditActionAt(ms, pos) =>
              LET old == LoadedFunscript.Actions
                  new == LoadedFunscript'.Actions
              IN  /\ ActionAt(new, ms) = Action(ms, pos)
                  /\ Cardinality({i \in 1..Len(new) : new[i].at = ms}) = 1
                  /\ SelectSeq(new, LAMBDA a : a.at # ms)
                        = SelectSeq(old, LAMBDA a : a.at # ms)
                  /\ Len(new) = IF ms \in AtsOf(old) THEN Len(old)
                                ELSE Len(old) + 1]_vars

\* C18: an add/edit has overwritten one action of two, the other is as it was
C18_Witness ==
    /\ UndoStack # <<>>
    /\ LastSnapshot.Message = "Add/Edit Action"
    /\ Len(LastSnapshot.Actions) = 2
    /\ Len(LoadedFunscript.Actions) = 2
    /\ LoadedFunscript.Actions[1] = LastSnapshot.Actions[1]
    /\ LoadedFunscript.Actions[2].at = LastSnapshot.Actions[2].at
    /\ LastSnapshot.Actions[2].pos = 0
    /\ LoadedFunscript.Actions[2].pos = 100

\* C20: every action's pos is within 0..100, whatever was selected and moved
\* up or down and whatever was added at a pos within 0..100.
C20_PositionRange ==
    \A i \in 1..Len(LoadedFunscript.Actions) :
        LoadedFunscript.Actions[i].pos \in 0..100

\* C20: a move up of two selected actions, one at 100 and one at 0: the first
\* stays at 100, the second is at 1
C20_Witness ==
    /\ UndoStack # <<>>
    /\ LastSnapshot.Message = "Selection moved"
    /\ Len(LoadedFunscript.Actions) = 2
    /\ LoadedFunscript.selection = AtsOf(LoadedFunscript.Actions)
    /\ LastSnapshot.Actions[1].pos = 100
    /\ LoadedFunscript.Actions[1].pos = 100
    /\ LastSnapshot.Actions[2].pos = 0
    /\ LoadedFunscript.Actions[2].pos = 1

\* C16: every mutating command (add/edit, remove action, remove selection,
\* cut, paste, move selection) takes its snapshot before it mutates: every
\* step that changes the action sequence and is not an undo, a redo or a
\* load pushes one entry on the Undo stack, and the entry holds the action
\* sequence of before the step.
C16_SnapshotBeforeMutation ==
    [][LoadedFunscript'.Actions # LoadedFunscript.Actions =>
          \/ /\ Len(UndoStack') = Len(UndoStack) + 1
             /\ SubSeq(UndoStack', 1, Len(UndoStack)) = UndoStack
             /\ UndoStack'[Len(UndoStack')].Actions = LoadedFunscript.Actions
          \/ undo
          \/ redo
          \/ openFunscript]_vars

\* C16: a cut has removed the selected actions, and the entry it pushed
\* holds them
C16_Witness ==
    /\ UndoStack # <<>>
    /\ LastSnapshot.Message = "Cut selection"
    /\ CopiedSelection # <<>>
    /\ AtsOf(CopiedSelection) \subseteq AtsOf(LastSnapshot.Actions)
    /\ AtsOf(CopiedSelection) \cap AtsOf(LoadedFunscript.Actions) = {}
    /\ Len(LoadedFunscript.Actions) < Len(LastSnapshot.Actions)

\* C17: the entries on the Undo and Redo stacks keep the action sequence
\* they were pushed with, whatever is done to the live sequence afterwards:
\* each holds the sequence the run recorded at its place in the history.
C17_EntriesKeepTheirState ==
    /\ \A i \in 1..Len(UndoStack) : UndoStack[i].Actions = seen[i]
    /\ \A j \in 1..Len(RedoStack) :
           RedoStack[j].Actions = seen[Len(seen) - j + 1]

\* C17: two entries pushed before two mutations; the live sequence and the
\* two entries hold three different sequences
C17_Witness ==
    /\ Len(UndoStack) = 2
    /\ Len(seen) = 3
    /\ UndoStack[1].Actions = seen[1]
    /\ UndoStack[2].Actions = seen[2]
    /\ LoadedFunscript.Actions = seen[3]
    /\ seen[1] # seen[2]
    /\ seen[2] # seen[3]
    /\ seen[1] # seen[3]

\* C19: the position shown for a playback position is 0 for an empty
\* sequence, the first action's pos before the first action, the last
\* action's pos after the last, and between two actions the value on the
\* line through them (exactly when that is a whole number, else a whole
\* number less than one away from it); it is within 0..100.
C19_Interpolation ==
    [][\A ms \in SimTimes :
          ShowSimulatorPosition(ms) =>
              LET acts == LoadedFunscript.Actions
                  n == Len(acts)
                  r == simulatorPos'
              IN  /\ r \in 0..100
                  /\ n = 0 => r = 0
                  /\ (n > 0 /\ ms <= acts[1].at) => r = acts[1].pos
                  /\ (n > 0 /\ ms >= acts[n].at) => r = acts[n].pos
                  /\ \A i \in 1..(n - 1) :
                        (acts[i].at <= ms /\ ms <= acts[i + 1].at) =>
                            LET den == acts[i + 1].at - acts[i].at
                                num == acts[i].pos * den
                                          + (acts[i + 1].pos - acts[i].pos)
                                               * (ms - acts[i].at)
                            IN  Abs(r * den - num) < den]_vars

\* C19: halfway between an action at pos 0 and one at pos 100 the position
\* shown is 50
C19_Witness ==
    /\ Len(LoadedFunscript.Actions) = 2
    /\ LoadedFunscript.Actions[1] = Action(0, 0)
    /\ LoadedFunscript.Actions[2] = Action(2, 100)
    /\ simulatorMs = 1
    /\ simulatorPos = 50

(***************************************************************************)
(* The gradient's properties.                                              *)
(***************************************************************************)
\* C21: a computation of the gradient from the action sequence and the
\* duration of the first computation gives the marks of the first
\* computation, whatever was computed in between and whatever the gradient
\* held.
C21_GradientDeterministic ==
    [][\A visible \in BOOLEAN, durationMs \in GradDurations :
          (/\ DrawTimelineWidget(visible, durationMs)
           /\ recomputed'
           /\ firstUpdate # Nothing
           /\ firstUpdate.Actions = LoadedFunscript.Actions
           /\ firstUpdate.durationMs = durationMs)
          => grad' = firstUpdate.marks]_vars

\* C21: the gradient has been computed from other inputs since the first
\* computation and holds the first computation's marks again
C21_Witness ==
    /\ firstUpdate # Nothing
    /\ firstUpdate.others
    /\ recomputed
    /\ Len(grad) > 3
    /\ grad = firstUpdate.marks
    /\ LoadedFunscript.Actions = firstUpdate.Actions

\* C23: a frame computes the gradient again exactly when the timeline is
\* drawn and at least one change event was handled since the last
\* computation; the computation takes the flag down, so the frames that
\* follow without an event compute nothing, and any number of events between
\* two frames gives one computation.
C23_LazyRecomputation ==
    [][/\ updateTimelineGradient' <=> pending' > 0
       /\ \A visible \in BOOLEAN, durationMs \in GradDurations :
             DrawTimelineWidget(visible, durationMs)
             => /\ recomputed' <=> (visible /\ pending > 0)
                /\ recomputed' => (pending' = 0 /\ ~updateTimelineGradient')]_vars

\* C23: a frame has just computed the gradient, not for the first time, and
\* the flag is down
C23_Witness ==
    /\ recomputed
    /\ ~updateTimelineGradient
    /\ pending = 0
    /\ firstUpdate # Nothing
    /\ firstUpdate.others

\* C25: every mark of a gradient computed for a script with actions has its
\* position within [0, 1]: the midpoint of its window is at most the
\* duration.
C25_MarksWithinUnitInterval ==
    \A i \in 1..Len(grad) :
        /\ 0 <= grad[i].num
        /\ grad[i].num <= grad[i].den

\* C25: a gradient computed for a script with actions holds a mark past 1
C25_Witness ==
    /\ recomputed
    /\ LoadedFunscript.Actions # <<>>
    /\ \E i \in 1..Len(grad) : grad[i].num > grad[i].den

RECURSIVE CountedInWindows(_, _, _)
\* the sum, over the windows from kernel_offset on, of the actions counted
CountedInWindows(acts, durationMs, kernel_offset) ==
    ActionsInKernel(acts, kernel_offset)
    + IF kernel_offset + kernel_size_ms < durationMs
      THEN CountedInWindows(acts, durationMs, kernel_offset + kernel_size_ms)
      ELSE 0

\* the actions with 0 <= at <= durationMs
WithinDuration(acts, durationMs) ==
    {i \in 1..Len(acts) : 0 <= acts[i].at /\ acts[i].at <= durationMs}

\* C26: in a gradient just computed, the counts of the windows add up to
\* the number of actions with 0 <= at <= duration: each such action is
\* counted in exactly one window.
C26_WindowsPartitionActions ==
    (recomputed /\ Len(grad) > 2)
    => CountedInWindows(LoadedFunscript.Actions, grad[3].den, 0)
       = Cardinality(WithinDuration(LoadedFunscript.Actions, grad[3].den))

\* C26: a gradient just computed in which an action on a window's end,
\* which is not the last action, has been counted in two windows
C26_Witness ==
    /\ recomputed
    /\ Len(grad) > 3
    /\ \E i \in 1..(Len(LoadedFunscript.Actions) - 1) :
          LoadedFunscript.Actions[i].at = kernel_size_ms
    /\ CountedInWindows(LoadedFunscript.Actions, grad[3].den, 0)
       > Cardinality(WithinDuration(LoadedFunscript.Actions, grad[3].den))

(***************************************************************************)
(* Deserializing into a vector that already holds items.                   *)
(***************************************************************************)
\* C27: a Deserialize that returns, of a document whose "actions" has L
\* items, into a Timeline that holds K actions leaves K + L actions, the K
\* old ones first and unchanged; the same document deserialized a second
\* time into the destination it was first read into doubles the actions;
\* and a round trip gives back the serialized action sequence exactly when
\* the destination held no actions.
C27_DeserializeAppends ==
    [][(/\ lastOp' = "deserialize"
        /\ proc' = "running"
        /\ type = TTimeline
        /\ Contains(json, "actions"))
       => LET K == Len(obj.actions)
              L == Len(JsonItems(json.v["actions"]))
          IN  /\ Len(obj'.actions) = K + L
              /\ SubSeq(obj'.actions, 1, K) = obj.actions
              /\ (lastOp = "deserialize" /\ objBefore.actions = <<>>)
                 => obj'.actions = obj.actions \o obj.actions
              /\ written.has
                 => (obj'.actions = written.val.actions <=> K = 0)]_vars

\* C27: a document of two actions has been deserialized twice into the same
\* destination, which holds the two actions twice
C27_Witness ==
    /\ lastOp = "deserialize"
    /\ proc = "running"
    /\ type = TTimeline
    /\ Contains(json, "actions")
    /\ json.v["actions"].k = "arr"
    /\ Len(json.v["actions"].v) = 2
    /\ Len(objBefore.actions) = 2
    /\ obj.actions = objBefore.actions \o objBefore.actions

(***************************************************************************)
(* Commands that find nothing to do, and paste.                            *)
(***************************************************************************)
\* C28: cutSelection and copySelection with nothing selected, pasteSelection
\* with an empty clipboard, and removeAction() with nothing selected and no
\* action within one frame time of the cursor push no Undo entry, keep the
\* Redo stack, and leave the actions, the selection and the clipboard as
\* they were.
C28_NothingToDoChangesNothing ==
    [][(\/ ~HasSelection(LoadedFunscript) /\ cutSelection
        \/ ~HasSelection(LoadedFunscript) /\ copySelection
        \/ CopiedSelection = <<>> /\ pasteSelection
        \/ /\ ~HasSelection(LoadedFunscript)
           /\ \E ms \in Times, FrameTimeMs \in FrameTimes :
                 /\ GetActionAtTime(LoadedFunscript, ms, FrameTimeMs) = {}
                 /\ removeActionAtCursor(ms, FrameTimeMs))
       => UNCHANGED edVars]_vars

\* C28: nothing is selected, the clipboard is empty, a cursor position has
\* no action within a frame time, and the Redo stack holds an entry to lose
C28_Witness ==
    /\ ~HasSelection(LoadedFunscript)
    /\ CopiedSelection = <<>>
    /\ LoadedFunscript.Actions # <<>>
    /\ \E ms \in Times, FrameTimeMs \in FrameTimes :
          GetActionAtTime(LoadedFunscript, ms, FrameTimeMs) = {}
    /\ RedoStack # <<>>

\* the clipboard's actions with every at shifted by the one offset that
\* brings the first of them to ms
ShiftedTo(copied, ms) ==
    [i \in 1..Len(copied) |->
        Action(copied[i].at + (ms - copied[1].at), copied[i].pos)]

RECURSIVE Issued(_, _, _, _)
\* the script after PasteAction has been issued for each of the actions in
\* turn, from index i on
Issued(f, actions, i, toleranceMs) ==
    IF i > Len(actions) THEN f
    ELSE Issued(PasteAction(f, actions[i], toleranceMs), actions, i + 1,
                toleranceMs)

\* C29: a pasteSelection with a clipboard that is not empty issues one
\* PasteAction per clipboard action, in order, with the clipboard's pos and
\* with at shifted by a single offset, the playback position minus the at
\* of the first clipboard action: the first pasted action is on the
\* playback position and the distances in time are those of the clipboard.
\* The clipboard is left as it was.
C29_PasteShiftsByOneOffset ==
    [][(/\ CopiedSelection # <<>>
        /\ Len(UndoStack') > Len(UndoStack)
        /\ UndoStack'[Len(UndoStack')].Message = "Paste copied actions"
        /\ pasteSelection)
       => /\ RedoStack' = <<>>
          /\ CopiedSelection' = CopiedSelection
          /\ \E ms \in Times, FrameTimeMs \in FrameTimes :
                LET actions == ShiftedTo(CopiedSelection, ms)
                IN  /\ Len(actions) = Len(CopiedSelection)
                    /\ actions[1].at = ms
                    /\ \A i \in 1..Len(actions) :
                          /\ actions[i].pos = CopiedSelection[i].pos
                          /\ actions[i].at - actions[1].at
                             = CopiedSelection[i].at - CopiedSelection[1].at
                    /\ LoadedFunscript' =
                          Issued(LoadedFunscript, actions, 1, FrameTimeMs)]_vars

\* C29: a clipboard of two actions has been pasted away from where it was
\* copied, and both pasted actions are in the script, as far apart as in the
\* clipboard
C29_Witness ==
    /\ UndoStack # <<>>
    /\ UndoStack[Len(UndoStack)].Message = "Paste copied actions"
    /\ Len(CopiedSelection) = 2
    /\ \E offset_ms \in {-2, -1, 1, 2} :
          /\ AtsOf(UndoStack[Len(UndoStack)].Actions)
             # AtsOf(LoadedFunscript.Actions)
          /\ \A i \in 1..2 :
                Action(CopiedSelection[i].at + offset_ms, CopiedSelection[i].pos)
                    \in {LoadedFunscript.Actions[j] :
                            j \in 1..Len(LoadedFunscript.Actions)}

(***************************************************************************)
(* The file dialogs' properties, under DlgSpec.  Thread 0 is the main      *)
(* thread.                                                                 *)
(***************************************************************************)
\* C24: the worker thread of a file dialog never reads or writes the script
\* or the Undo and Redo stacks; all it does is assign its static result and
\* push one event; every use of the script that a dialog leads to (openFile,
\* saveScript) is made by the main thread, in the handler that takes the
\* event off the queue.
C24_WorkersNeverTouchTimeline ==
    [][/\ timelineBy' \subseteq {0}
       /\ (edVars' # edVars \/ timelineBy' # timelineBy)
          => (thread' = thread /\ (sdlQueue' # sdlQueue => Len(sdlQueue') < Len(sdlQueue)))
       /\ \A w \in Workers :
             (thread[w].pc \notin {"none", "done"} /\ thread'[w] # thread[w])
             => /\ UNCHANGED <<edVars, timelineBy, handled>>
                /\ \A v \in Workers \ {w} : thread'[v] = thread[v]
                /\ IF thread'[w].pc = "done"
                   THEN /\ Len(sdlQueue') = Len(sdlQueue) + 1
                        /\ sdlQueue'[Len(sdlQueue')].from = w
                        /\ SubSeq(sdlQueue', 1, Len(sdlQueue)) = sdlQueue
                   ELSE sdlQueue' = sdlQueue]_vars

\* C24: both workers have pushed their event and ended, and the main thread
\* has opened a file from a handler
C24_Witness ==
    /\ \A w \in Workers : thread[w].pc = "done"
    /\ timelineBy = {0}
    /\ handled # Nothing
    /\ handled.read # ""
    /\ LoadedFunscript.Actions # <<>>

\* C30: what a handler reads through data1 is what the dialog of the worker
\* that pushed the event had returned, and no worker is assigning to the
\* static while the handler reads it.
C30_HandlerReadsItsWorkersResult ==
    handled # Nothing
    => /\ handled.read = handled.chosen
       /\ ~handled.raced

\* C30: with two dialogs open at once, a handler has read, without any
\* race, a result that is not the one of the worker that pushed the event
C30_Witness ==
    /\ handled # Nothing
    /\ ~handled.raced
    /\ handled.read # handled.chosen

====
